---- MODULE Spec2Model ----
(***************************************************************************)
(* Account-lifecycle orchestrator of cursorRegister2 (src/main.py,         *)
(* class CursorApp): the four button handlers generate_account, reset_ID,  *)
(* update_auth and auto_register, the helpers _save_env_vars and           *)
(* backup_env_file, and the collaborators they call.                       *)
(*                                                                         *)
(* Strings are sequences of one-character strings.  The token name         *)
(* "WorkosCursorSessionToken" is written as the single symbol "W".         *)
(* `calls' is a history variable: the calls the running handler has made   *)
(* to its collaborators (store, backup manager, external operations,       *)
(* registrar, message boxes, confirmation dialog), in order.  The backup    *)
(* directory is seen through it: an entry is added by a successful         *)
(* backup_file call and by nothing else.                                   *)
(***************************************************************************)
EXTENDS Integers, Sequences, FiniteSets, TLC

VARIABLES
    entries,    \* self.entries: widget name -> text shown
    store,      \* content of the .env backing file: name -> value or None
    envExists,  \* Utils.get_path('env').exists()
    pc,         \* position of the (single) UI thread inside a handler
    wf,         \* handler being run, "none" when the event loop is idle
    exc,        \* message of the exception in flight, NoExc when none
    browser,    \* registrar.browser is set
    calls,      \* history: collaborator calls of the running handler
    store0,     \* history: store when the handler was entered
    entries0,   \* history: entries when the handler was entered
    grab,       \* the confirmation dialog holds the input grab (line 351)
    stack,      \* handlers suspended below the running one, innermost last
    appClosed   \* the main window has been destroyed

vars == <<entries, store, envExists, pc, wf, exc, browser, calls, store0, entries0,
          grab, stack, appClosed>>

----------------------------------------------------------------------------
(* Bounds *)

\* number of distinct messages an external operation may return
MaxMsgs == 2

\* longest cookie text the user types
MaxCookieLen == 2

----------------------------------------------------------------------------
(* Strings *)

SP == " "

\* str.strip(): drop leading and trailing whitespace
RECURSIVE lstrip(_)
lstrip(s) == IF s # <<>> /\ Head(s) = SP THEN lstrip(Tail(s)) ELSE s

RECURSIVE rstrip(_)
rstrip(s) ==
    IF s # <<>> /\ s[Len(s)] = SP THEN rstrip(SubSeq(s, 1, Len(s) - 1)) ELSE s

strip(s) == rstrip(lstrip(s))

\* `sub in s' of Python
Contains(s, sub) ==
    \E i \in 1..(Len(s) - Len(sub) + 1) : SubSeq(s, i, i + Len(sub) - 1) = sub

\* the name the cookie box is pre-filled with (line 242)
TokenName == <<"W">>

\* the token name without the "=" after it
RequiredToken_NameOnly == TokenName

\* "WorkosCursorSessionToken=": the substring update_auth requires (line 325)
\* and the prefix auto_register writes (line 385)
RequiredToken == TokenName \o <<"=">>

----------------------------------------------------------------------------
(* Configuration and input domains *)

\* WindowConfig.env_vars, names only
EnvVars == {"DOMAIN", "EMAIL", "PASSWORD"}

Widgets == EnvVars \cup {"cookie"}

None == <<"None">>
NoExc == "no_exception"

\* texts the user types into the DOMAIN, EMAIL and PASSWORD boxes
FieldTexts(k) ==
    CASE k = "DOMAIN"   -> {<<>>, <<SP>>, <<SP, "d", SP>>}
      [] k = "EMAIL"    -> {<<>>, <<"e">>}
      [] k = "PASSWORD" -> {<<>>, <<"p">>}

CookieChars == {SP, "W", "="}

RECURSIVE SeqsUpTo(_, _)
SeqsUpTo(S, n) ==
    IF n = 0 THEN {<<>>}
    ELSE LET shorter == SeqsUpTo(S, n - 1)
         IN  shorter \cup {Append(s, c) : s \in shorter, c \in S}

\* a cookie copied from the browser, with blanks around it
PastedCookies == {<<SP, "W", "=", "c", SP>>}

\* texts the user types or pastes into the cookie box
CookieTexts == SeqsUpTo(CookieChars, MaxCookieLen) \cup PastedCookies

\* values the .env file holds for a name when the program starts
StoredValues(k) ==
    CASE k = "DOMAIN"   -> {None, <<"d">>}
      [] k = "EMAIL"    -> {None, <<"e">>}
      [] k = "PASSWORD" -> {None, <<"p">>}

\* messages carried by the Result of an external operation
Msgs == {"m" \o ToString(i) : i \in 1..MaxMsgs}

\* tokens registrar.get_cursor_token() returns; <<>> stands for ""/None
Tokens == {<<>>, <<"t">>, <<"t", SP>>}

\* messages of the exceptions and message boxes of main.py
MsgEnvNotFound    == "env_file_not_found"      \* line 285
MsgBackupFailed   == "backup_failed"           \* line 289
MsgSaveDomain     == "save_domain_failed"      \* line 297
MsgSaveEnvFailed  == "save_env_vars_failed"    \* line 280
MsgGenerated      == "account_generated"       \* line 308
MsgEnterCookie    == "enter_cookie"            \* line 322
MsgCookieFormat   == "cookie_format"           \* line 326
MsgRegistered     == "auto_register_success"   \* line 386
MsgNoToken        == "get_token_failed"        \* line 388
MsgClickButton    == "click_button_then_continue"   \* line 377
MsgVerify         == "verify_then_continue"         \* line 379
MsgRaised         == "raised_by_callee"        \* an exception of a callee

NoUpdates == [k \in {} |-> <<>>]

\* one entry of `calls'
Call(op, ok, msg, arg, upd) ==
    [op |-> op, ok |-> ok, msg |-> msg, arg |-> arg, upd |-> upd]

Ev(op, ok)        == Call(op, ok, "", <<>>, NoUpdates)
EvMsg(op, msg)    == Call(op, TRUE, msg, <<>>, NoUpdates)

----------------------------------------------------------------------------
(* Collaborators *)

\* Result of cursor_utils, and the legacy plain tuple (line 303)
Result(success, data, message) ==
    [shape |-> "Result", success |-> success, data |-> data, message |-> message]

PlainTuple(data) == [shape |-> "tuple", items |-> data]

\* truth value of what an external operation returned: `not result'
ResultOk(result) ==
    IF result.shape = "Result" THEN result.success ELSE result.items # <<>>

\* line 303: result.data if isinstance(result, Result) else result
Payload(result) ==
    IF result.shape = "Result" THEN result.data ELSE result.items

\* (email, password) pairs generate_cursor_account() produces
GenPairs == {<< <<"g">>, <<"p">> >>}

\* what generate_cursor_account() returns
GenResults ==
    {Result(TRUE, d, "m1") : d \in GenPairs}
        \cup {Result(FALSE, <<>>, m) : m \in Msgs}
        \cup {PlainTuple(d) : d \in GenPairs}

\* what reset() and process_cookies() return
OpResults == {Result(ok, <<>>, m) : ok \in BOOLEAN, m \in Msgs}

\* Utils.update_env_vars: merge `upd' into the file, other names kept
update_env_vars(st, upd) ==
    [k \in EnvVars |-> IF k \in DOMAIN upd THEN upd[k] ELSE st[k]]

----------------------------------------------------------------------------
(* Initial state: main() loads .env, CursorApp.__init__ builds the window *)

Init ==
    /\ envExists \in BOOLEAN
    /\ store \in [EnvVars -> UNION {StoredValues(k) : k \in EnvVars}]
    /\ \A k \in EnvVars : store[k] \in StoredValues(k)
    /\ ~envExists => \A k \in EnvVars : store[k] = None
    /\ entries = [w \in Widgets |->
                    IF w = "cookie" THEN TokenName
                    ELSE IF store[w] # None THEN store[w] ELSE <<>>]
    /\ pc = "idle"
    /\ wf = "none"
    /\ exc = NoExc
    /\ browser = FALSE
    /\ calls = <<>>
    /\ store0 = store
    /\ entries0 = entries
    /\ grab = FALSE
    /\ stack = <<>>
    /\ appClosed = FALSE

----------------------------------------------------------------------------
(* The user types into a box while the event loop is idle *)

UserEdit ==
    /\ pc = "idle"
    /\ \E w \in Widgets :
         \E v \in (IF w = "cookie" THEN CookieTexts ELSE FieldTexts(w)) :
            /\ entries' = [entries EXCEPT ![w] = v]
            /\ entries0' = entries'
    /\ UNCHANGED <<store, envExists, pc, wf, exc, browser, calls, store0, grab, stack, appClosed>>

----------------------------------------------------------------------------
(* The buttons: lines 196-201 and 249-258 *)

\* WindowConfig.buttons: handler -> its first position
Handlers == {"generate_account", "auto_register", "reset_ID", "update_auth"}

EntryPc(h) ==
    CASE h = "generate_account" -> "ga_backup"
      [] h = "auto_register"    -> "ar_save"
      [] h = "reset_ID"         -> "ri_reset"
      [] h = "update_auth"      -> "ua_validate"

\* positions at which the handler sits in dialog.wait_window() (line 372),
\* where the event loop runs nested inside the handler
Waits == {"ar_wait1", "ar_wait2"}

\* a button of the main window can be pressed: the event loop is running
\* and no dialog holds the grab
CanEnter ==
    /\ ~appClosed
    /\ pc = "idle" \/ (pc \in Waits /\ ~grab)

\* the handler that is suspended while a nested one runs
Frame ==
    [pc |-> pc, wf |-> wf, exc |-> exc, browser |-> browser, calls |-> calls,
     store0 |-> store0, entries0 |-> entries0]

\* the user presses a button: its command is called from the event loop
Click ==
    /\ CanEnter
    /\ \E h \in Handlers :
         /\ wf' = h
         /\ pc' = EntryPc(h)
    /\ stack' = IF pc = "idle" THEN stack ELSE Append(stack, Frame)
    /\ calls' = <<>>
    /\ exc' = NoExc
    /\ browser' = FALSE
    /\ store0' = store
    /\ entries0' = entries
    /\ UNCHANGED <<entries, store, envExists, grab, appClosed>>

----------------------------------------------------------------------------
(* _save_env_vars(), always called without arguments: lines 271-280 *)

\* the flush without the emptiness test of line 277
VisibleUpdates_All(e) == [k \in EnvVars |-> strip(e[k])]

\* the dict built at lines 273-277
VisibleUpdates(e) ==
    [k \in {n \in EnvVars : strip(e[n]) # <<>>} |-> strip(e[k])]

\* calls made by _save_env_vars when update_env_vars returns `ok'
SaveCalls(e, ok) ==
    LET upd == VisibleUpdates(e) IN
    IF DOMAIN upd = {} THEN <<>>
    ELSE <<Call("update_env_vars", ok, "", <<>>, upd)>>
            \o (IF ok THEN <<>> ELSE <<EvMsg("show_warning", MsgSaveEnvFailed)>>)

\* the file after _save_env_vars when update_env_vars returns `ok'
SaveStore(e, st, ok) ==
    LET upd == VisibleUpdates(e) IN
    IF DOMAIN upd # {} /\ ok THEN update_env_vars(st, upd) ELSE st

SaveExists(e, ex, ok) == ex \/ (DOMAIN VisibleUpdates(e) # {} /\ ok)

\* backup_env_file without the check of line 284
BackupEnvFile_NoExistsCheck(next) ==
    \E ok \in BOOLEAN :
        /\ calls' = Append(calls, Ev("backup_file", ok))
        /\ IF ok THEN pc' = next /\ UNCHANGED exc
                 ELSE pc' = "raised" /\ exc' = MsgBackupFailed

(* backup_env_file(): lines 282-289; continues at `next' when it returns *)
BackupEnvFile(next) ==
    IF ~envExists
    THEN /\ exc' = MsgEnvNotFound
         /\ pc' = "raised"
         /\ UNCHANGED calls
    ELSE \E ok \in BOOLEAN :
            /\ calls' = Append(calls, Ev("backup_file", ok))
            /\ IF ok THEN pc' = next /\ UNCHANGED exc
                     ELSE pc' = "raised" /\ exc' = MsgBackupFailed

----------------------------------------------------------------------------
(* generate_account: lines 291-309 *)

GA_Backup ==
    /\ pc = "ga_backup"
    /\ BackupEnvFile("ga_domain")
    /\ UNCHANGED <<entries, store, envExists, wf, browser, store0, entries0, grab, stack, appClosed>>

\* lines 295-298
GA_Domain ==
    /\ pc = "ga_domain"
    /\ LET domain == strip(entries["DOMAIN"]) IN
       IF domain # <<>>
       THEN \E ok \in BOOLEAN :
              LET upd == [k \in {"DOMAIN"} |-> domain] IN
              /\ calls' = Append(calls, Call("update_env_vars", ok, "", <<>>, upd))
              /\ IF ok
                 THEN /\ store' = update_env_vars(store, upd)
                      /\ pc' = "ga_generate"
                      /\ UNCHANGED exc
                 ELSE /\ exc' = MsgSaveDomain
                      /\ pc' = "raised"
                      /\ UNCHANGED store
       ELSE /\ pc' = "ga_generate"
            /\ UNCHANGED <<calls, store, exc>>
    /\ UNCHANGED <<entries, envExists, wf, browser, store0, entries0, grab, stack, appClosed>>

\* the log entry of a generate_cursor_account() that returned `result'
GenCall(result) ==
    Call("generate_cursor_account", TRUE,
         IF result.shape = "Result" THEN result.message ELSE "",
         <<result.shape>>,
         IF result.shape = "Result"
         THEN [EMAIL |-> result.data[1], PASSWORD |-> result.data[2]]
         ELSE [EMAIL |-> result.items[1], PASSWORD |-> result.items[2]])

\* lines 303-307: the boxes after the pair is unpacked and shown
AcceptedEntries(result) ==
    LET email    == Payload(result)[1]
        password == Payload(result)[2]
    IN  [entries EXCEPT !["EMAIL"] = email, !["PASSWORD"] = password]

\* generate_account unpacking result.data whatever the shape of the result
GA_Accept_EnvelopeOnly(result) ==
    IF result.shape = "Result"
    THEN \E ok \in BOOLEAN :
           LET shown == AcceptedEntries(result)
           IN  /\ entries' = shown
               /\ calls' = calls
                     \o <<GenCall(result), EvMsg("show_success", MsgGenerated)>>
                     \o SaveCalls(shown, ok)
               /\ store' = SaveStore(shown, store, ok)
               /\ envExists' = SaveExists(shown, envExists, ok)
               /\ pc' = "done"
               /\ UNCHANGED exc
    ELSE /\ calls' = Append(calls, GenCall(result))
         /\ exc' = MsgRaised
         /\ pc' = "raised"
         /\ UNCHANGED <<entries, store, envExists>>

\* lines 303-309: the result is accepted
GA_Accept(result) ==
    \E ok \in BOOLEAN :
       LET shown == AcceptedEntries(result)
       IN  /\ entries' = shown
           /\ calls' = calls
                 \o <<GenCall(result), EvMsg("show_success", MsgGenerated)>>
                 \o SaveCalls(shown, ok)
           /\ store' = SaveStore(shown, store, ok)
           /\ envExists' = SaveExists(shown, envExists, ok)
           /\ pc' = "done"
           /\ UNCHANGED exc

\* generate_account flushing the boxes before it raises on a failed result
GA_Generate_FlushOnFailure ==
    /\ pc = "ga_generate"
    /\ \E result \in GenResults :
         IF ~ResultOk(result)
         THEN /\ calls' = Append(calls, Call("generate_cursor_account", FALSE,
                                             result.message, <<>>, NoUpdates))
              /\ store' = SaveStore(entries, store, TRUE)
              /\ exc' = result.message
              /\ pc' = "raised"
              /\ UNCHANGED <<entries, envExists>>
         ELSE GA_Accept(result)
    /\ UNCHANGED <<wf, browser, store0, entries0, grab, stack, appClosed>>

\* lines 300-309
GA_Generate ==
    /\ pc = "ga_generate"
    /\ \E result \in GenResults :
         IF ~ResultOk(result)
         THEN /\ calls' = Append(calls, Call("generate_cursor_account", FALSE,
                                             result.message, <<>>, NoUpdates))
              /\ exc' = result.message
              /\ pc' = "raised"
              /\ UNCHANGED <<entries, store, envExists>>
         ELSE GA_Accept(result)
    /\ UNCHANGED <<wf, browser, store0, entries0, grab, stack, appClosed>>

----------------------------------------------------------------------------
(* reset_ID: lines 311-316 *)

\* reset_ID flushing the boxes before it reports the success
RI_Reset_SaveFirst ==
    /\ pc = "ri_reset"
    /\ \E result \in OpResults :
         IF ~ResultOk(result)
         THEN /\ calls' = Append(calls, Call("reset", FALSE, result.message,
                                             <<>>, NoUpdates))
              /\ exc' = result.message
              /\ pc' = "raised"
              /\ UNCHANGED <<store, envExists>>
         ELSE \E ok \in BOOLEAN :
              /\ calls' = calls
                    \o <<Call("reset", TRUE, result.message, <<>>, NoUpdates)>>
                    \o SaveCalls(entries, ok)
                    \o <<EvMsg("show_success", result.message)>>
              /\ store' = SaveStore(entries, store, ok)
              /\ envExists' = SaveExists(entries, envExists, ok)
              /\ pc' = "done"
              /\ UNCHANGED exc
    /\ UNCHANGED <<entries, wf, browser, store0, entries0, grab, stack, appClosed>>

RI_Reset ==
    /\ pc = "ri_reset"
    /\ \E result \in OpResults :
         IF ~ResultOk(result)
         THEN /\ calls' = Append(calls, Call("reset", FALSE, result.message,
                                             <<>>, NoUpdates))
              /\ exc' = result.message
              /\ pc' = "raised"
              /\ UNCHANGED <<store, envExists>>
         ELSE \E ok \in BOOLEAN :
              /\ calls' = calls
                    \o <<Call("reset", TRUE, result.message, <<>>, NoUpdates),
                         EvMsg("show_success", result.message)>>
                    \o SaveCalls(entries, ok)
              /\ store' = SaveStore(entries, store, ok)
              /\ envExists' = SaveExists(entries, envExists, ok)
              /\ pc' = "done"
              /\ UNCHANGED exc
    /\ UNCHANGED <<entries, wf, browser, store0, entries0, grab, stack, appClosed>>

----------------------------------------------------------------------------
(* update_auth: lines 318-335 *)

\* the validation gate without the check of line 325
CookieWarning_NoFormatCheck(cookie_str) ==
    IF cookie_str = <<>> THEN MsgEnterCookie ELSE ""

\* the warning of the validation gate, "" when the cookie passes: lines 321-327
CookieWarning(cookie_str) ==
    IF cookie_str = <<>> THEN MsgEnterCookie
    ELSE IF ~Contains(cookie_str, RequiredToken) THEN MsgCookieFormat
    ELSE ""

\* lines 320-327
UA_Validate ==
    /\ pc = "ua_validate"
    /\ LET cookie_str == strip(entries["cookie"]) IN
       IF CookieWarning(cookie_str) # ""
       THEN /\ calls' = Append(calls, EvMsg("show_warning", CookieWarning(cookie_str)))
            /\ pc' = "done"
       ELSE /\ pc' = "ua_backup"
            /\ UNCHANGED calls
    /\ UNCHANGED <<entries, store, envExists, wf, exc, browser, store0, entries0,
                   grab, stack, appClosed>>

\* line 329
UA_Backup ==
    /\ pc = "ua_backup"
    /\ BackupEnvFile("ua_process")
    /\ UNCHANGED <<entries, store, envExists, wf, browser, store0, entries0, grab, stack, appClosed>>

\* update_auth without the clearing of line 334
UA_Accept_NoClear(result, cookie_str) ==
    \E ok \in BOOLEAN :
       /\ calls' = calls
             \o <<Call("process_cookies", TRUE, result.message,
                       cookie_str, NoUpdates),
                  EvMsg("show_success", result.message),
                  Ev("clear_cookie", TRUE)>>
             \o SaveCalls(entries, ok)
       /\ store' = SaveStore(entries, store, ok)
       /\ envExists' = SaveExists(entries, envExists, ok)
       /\ pc' = "done"
       /\ UNCHANGED <<entries, exc>>

\* lines 333-335: the cookie was processed
UA_Accept(result, cookie_str) ==
    \E ok \in BOOLEAN :
       LET shown == [entries EXCEPT !["cookie"] = <<>>] IN
       /\ entries' = shown
       /\ calls' = calls
             \o <<Call("process_cookies", TRUE, result.message,
                       cookie_str, NoUpdates),
                  EvMsg("show_success", result.message),
                  Ev("clear_cookie", TRUE)>>
             \o SaveCalls(shown, ok)
       /\ store' = SaveStore(shown, store, ok)
       /\ envExists' = SaveExists(shown, envExists, ok)
       /\ pc' = "done"
       /\ UNCHANGED exc

\* update_auth clearing the cookie box before it looks at the result
UA_Process_ClearFirst ==
    /\ pc = "ua_process"
    /\ LET cookie_str == strip(entries["cookie"]) IN
       \E result \in OpResults :
         IF ~ResultOk(result)
         THEN /\ entries' = [entries EXCEPT !["cookie"] = <<>>]
              /\ calls' = Append(calls, Call("process_cookies", FALSE,
                                             result.message, cookie_str, NoUpdates))
              /\ exc' = result.message
              /\ pc' = "raised"
              /\ UNCHANGED <<store, envExists>>
         ELSE UA_Accept(result, cookie_str)
    /\ UNCHANGED <<wf, browser, store0, entries0, grab, stack, appClosed>>

\* lines 330-335
UA_Process ==
    /\ pc = "ua_process"
    /\ LET cookie_str == strip(entries["cookie"]) IN
       \E result \in OpResults :
         IF ~ResultOk(result)
         THEN /\ calls' = Append(calls, Call("process_cookies", FALSE,
                                             result.message, cookie_str, NoUpdates))
              /\ exc' = result.message
              /\ pc' = "raised"
              /\ UNCHANGED <<entries, store, envExists>>
         ELSE UA_Accept(result, cookie_str)
    /\ UNCHANGED <<wf, browser, store0, entries0, grab, stack, appClosed>>

----------------------------------------------------------------------------
(* auto_register: lines 337-391 *)

RegistrarSteps ==
    <<"init_browser", "fill_registration_form", "fill_password",
      "get_user_info", "get_cursor_token">>

\* lines 339-343: flush the visible fields, reload, build the registrar
AR_Save ==
    /\ pc = "ar_save"
    /\ \E ok \in BOOLEAN :
         /\ calls' = calls \o SaveCalls(entries, ok)
         /\ store' = SaveStore(entries, store, ok)
         /\ envExists' = SaveExists(entries, envExists, ok)
    /\ browser' = FALSE
    /\ pc' = "ar_init"
    /\ UNCHANGED <<entries, wf, exc, store0, entries0, grab, stack, appClosed>>

\* a raise inside the try block of lines 374-388: control goes to `finally'
Raise(callsNow) ==
    /\ calls' = callsNow
    /\ exc' = MsgRaised
    /\ pc' = "ar_finally"
    /\ UNCHANGED grab

\* wait_for_user without the grab_set of line 351
WaitForUser_NoGrab(callsNow, message, waiting) ==
    IF appClosed
    THEN Raise(Append(callsNow, Call("wait_for_user", FALSE, message,
                                     <<>>, NoUpdates)))
    ELSE /\ calls' = Append(callsNow, EvMsg("wait_for_user", message))
         /\ pc' = waiting
         /\ UNCHANGED <<exc, grab>>

\* wait_for_user(message), lines 345-372, up to dialog.wait_window(): the
\* dialog takes the grab and the handler blocks at `waiting'; building the
\* dialog raises when the main window is gone
WaitForUser(callsNow, message, waiting) ==
    IF appClosed
    THEN Raise(Append(callsNow, Call("wait_for_user", FALSE, message,
                                     <<>>, NoUpdates)))
    ELSE /\ calls' = Append(callsNow, EvMsg("wait_for_user", message))
         /\ pc' = waiting
         /\ grab' = TRUE
         /\ UNCHANGED exc

\* a continue button that leaves the dialog in place
OnContinue_NoDestroy(message, next) ==
    UNCHANGED <<calls, grab, pc, exc>>

\* on_continue, lines 361-363: the button of the dialog releases the grab and
\* destroys the dialog, which ends the wait
OnContinue(message, next) ==
    /\ calls' = Append(calls, EvMsg("on_continue", message))
    /\ grab' = FALSE
    /\ pc' = next
    /\ UNCHANGED exc

\* line 375; the handle may exist even when init_browser raises
AR_InitBrowser ==
    /\ pc = "ar_init"
    /\ \E ok \in BOOLEAN, handle \in BOOLEAN :
         IF ok
         THEN /\ browser' = TRUE
              /\ calls' = Append(calls, Ev("init_browser", TRUE))
              /\ pc' = "ar_form"
              /\ UNCHANGED <<exc, grab>>
         ELSE /\ browser' = handle
              /\ Raise(Append(calls, Ev("init_browser", FALSE)))
    /\ UNCHANGED <<entries, store, envExists, wf, store0, entries0, stack, appClosed>>

\* auto_register without the wait of line 377
AR_FillForm_NoWait ==
    /\ pc = "ar_form"
    /\ \E ok \in BOOLEAN :
         IF ok
         THEN /\ calls' = Append(calls, Ev("fill_registration_form", TRUE))
              /\ pc' = "ar_password"
              /\ UNCHANGED <<exc, grab>>
         ELSE Raise(Append(calls, Ev("fill_registration_form", FALSE)))
    /\ UNCHANGED <<entries, store, envExists, wf, browser, store0, entries0,
                   stack, appClosed>>

\* lines 376-377
AR_FillForm ==
    /\ pc = "ar_form"
    /\ \E ok \in BOOLEAN :
         IF ok
         THEN WaitForUser(Append(calls, Ev("fill_registration_form", TRUE)),
                          MsgClickButton, "ar_wait1")
         ELSE Raise(Append(calls, Ev("fill_registration_form", FALSE)))
    /\ UNCHANGED <<entries, store, envExists, wf, browser, store0, entries0,
                   stack, appClosed>>

\* the user presses the button of the first dialog
AR_Continue1 ==
    /\ pc = "ar_wait1"
    /\ OnContinue(MsgClickButton, "ar_password")
    /\ UNCHANGED <<entries, store, envExists, wf, browser, store0, entries0,
                   stack, appClosed>>

\* auto_register going on to the second wait although fill_password raised
AR_FillPassword_IgnoreFailure ==
    /\ pc = "ar_password"
    /\ \E ok \in BOOLEAN :
         WaitForUser(Append(calls, Ev("fill_password", ok)), MsgVerify, "ar_wait2")
    /\ UNCHANGED <<entries, store, envExists, wf, browser, store0, entries0,
                   stack, appClosed>>

\* lines 378-379
AR_FillPassword ==
    /\ pc = "ar_password"
    /\ \E ok \in BOOLEAN :
         IF ok
         THEN WaitForUser(Append(calls, Ev("fill_password", TRUE)),
                          MsgVerify, "ar_wait2")
         ELSE Raise(Append(calls, Ev("fill_password", FALSE)))
    /\ UNCHANGED <<entries, store, envExists, wf, browser, store0, entries0,
                   stack, appClosed>>

\* the user presses the button of the second dialog
AR_Continue2 ==
    /\ pc = "ar_wait2"
    /\ OnContinue(MsgVerify, "ar_info")
    /\ UNCHANGED <<entries, store, envExists, wf, browser, store0, entries0,
                   stack, appClosed>>

\* line 380
AR_GetUserInfo ==
    /\ pc = "ar_info"
    /\ \E ok \in BOOLEAN :
         IF ok
         THEN /\ calls' = Append(calls, Ev("get_user_info", TRUE))
              /\ pc' = "ar_token"
              /\ UNCHANGED <<exc, grab>>
         ELSE Raise(Append(calls, Ev("get_user_info", FALSE)))
    /\ UNCHANGED <<entries, store, envExists, wf, browser, store0, entries0,
                   stack, appClosed>>

\* the terminal step raising when there is no token
Terminal_RaiseOnNoToken(callsNow, token, shown) ==
    IF token # <<>>
    THEN IF shown
         THEN /\ entries' = [entries EXCEPT !["cookie"] = RequiredToken \o token]
              /\ calls' = Append(callsNow, EvMsg("show_success", MsgRegistered))
              /\ pc' = "ar_finally"
              /\ UNCHANGED <<exc, grab>>
         ELSE /\ UNCHANGED entries
              /\ Raise(Append(callsNow, Ev("set_cookie", FALSE)))
    ELSE /\ UNCHANGED entries
         /\ Raise(callsNow)

\* auto_register putting the bare token into the cookie box
Terminal_TokenOnly(callsNow, token, shown) ==
    IF shown
    THEN /\ entries' = IF token # <<>>
                       THEN [entries EXCEPT !["cookie"] = token]
                       ELSE entries
         /\ calls' = Append(callsNow,
                            IF token # <<>> THEN EvMsg("show_success", MsgRegistered)
                                            ELSE EvMsg("show_warning", MsgNoToken))
         /\ pc' = "ar_finally"
         /\ UNCHANGED <<exc, grab>>
    ELSE /\ UNCHANGED entries
         /\ Raise(Append(callsNow,
                         IF token # <<>> THEN Ev("set_cookie", FALSE)
                                         ELSE Ev("show_warning", FALSE)))

\* lines 383-388, after get_cursor_token returned `token'; `shown' tells
\* whether the widgets still exist: on a destroyed window the first widget
\* call (line 384, or the bell of line 169) raises
Terminal(callsNow, token, shown) ==
    IF shown
    THEN /\ entries' = IF token # <<>>
                       THEN [entries EXCEPT !["cookie"] = RequiredToken \o token]
                       ELSE entries
         /\ calls' = Append(callsNow,
                            IF token # <<>> THEN EvMsg("show_success", MsgRegistered)
                                            ELSE EvMsg("show_warning", MsgNoToken))
         /\ pc' = "ar_finally"
         /\ UNCHANGED <<exc, grab>>
    ELSE /\ UNCHANGED entries
         /\ Raise(Append(callsNow,
                         IF token # <<>> THEN Ev("set_cookie", FALSE)
                                         ELSE Ev("show_warning", FALSE)))

\* lines 381-388
AR_GetToken ==
    /\ pc = "ar_token"
    /\ \/ /\ Raise(Append(calls, Ev("get_cursor_token", FALSE)))
          /\ UNCHANGED entries
       \/ \E token \in Tokens :
             Terminal(Append(calls, Call("get_cursor_token", TRUE, "", token,
                                         NoUpdates)), token, ~appClosed)
    /\ UNCHANGED <<store, envExists, wf, browser, store0, entries0, stack, appClosed>>

\* auto_register without the quit of lines 390-391
AR_Finally_NoQuit ==
    /\ pc = "ar_finally"
    /\ pc' = IF exc # NoExc THEN "raised" ELSE "done"
    /\ UNCHANGED <<entries, store, envExists, wf, exc, browser, calls, store0,
                   entries0, grab, stack, appClosed>>

\* lines 389-391: the finally block; the exception in flight, or the one
\* quit() raises, propagates after it
AR_Finally ==
    /\ pc = "ar_finally"
    /\ IF browser
       THEN \E ok \in BOOLEAN :
              /\ calls' = Append(calls, Ev("quit", ok))
              /\ exc' = IF ok THEN exc ELSE MsgRaised
       ELSE UNCHANGED <<calls, exc>>
    /\ pc' = IF exc' # NoExc THEN "raised" ELSE "done"
    /\ UNCHANGED <<entries, store, envExists, wf, browser, store0, entries0,
                   grab, stack, appClosed>>

----------------------------------------------------------------------------
(* The boundary around every handler, and the return to the event loop *)

\* @error_handler of cursor_utils: an exception leaving the handler is
\* reported as one error carrying its message, and is not propagated
ErrorHandler ==
    /\ pc = "raised"
    /\ calls' = Append(calls, EvMsg("show_error", exc))
    /\ exc' = NoExc
    /\ pc' = "done"
    /\ UNCHANGED <<entries, store, envExists, wf, browser, store0, entries0,
                   grab, stack, appClosed>>

\* the handler has returned: to the event loop, to the wait of the handler
\* it interrupted, or out of mainloop() when the window is gone, which ends
\* the process
Return ==
    /\ pc = "done"
    /\ IF stack # <<>>
       THEN LET f == stack[Len(stack)] IN
            /\ pc' = f.pc /\ wf' = f.wf /\ exc' = f.exc /\ browser' = f.browser
            /\ calls' = f.calls /\ store0' = f.store0 /\ entries0' = f.entries0
            /\ stack' = SubSeq(stack, 1, Len(stack) - 1)
       ELSE IF appClosed
       THEN /\ pc' = "exited"
            /\ UNCHANGED <<wf, exc, browser, calls, store0, entries0, stack>>
       ELSE /\ pc' = "idle"
            /\ wf' = "none"
            /\ browser' = FALSE
            /\ calls' = <<>>
            /\ store0' = store
            /\ entries0' = entries
            /\ UNCHANGED <<exc, stack>>
    /\ UNCHANGED <<entries, store, envExists, grab, appClosed>>

\* closing the main window ending the process at once, a suspended handler
\* never resumed
CloseApp_Exit ==
    /\ ~appClosed
    /\ pc \in {"idle"} \cup Waits
    /\ appClosed' = TRUE
    /\ grab' = FALSE
    /\ pc' = "exited"
    /\ calls' = IF pc = "idle" THEN calls
                ELSE Append(calls, Ev("close_app", TRUE))
    /\ UNCHANGED <<entries, store, envExists, wf, exc, browser, store0, entries0,
                   stack>>

\* the user closes the main window: root is destroyed and with it the
\* dialog, so a pending dialog.wait_window() (line 372) returns and the
\* handler goes on; from the idle event loop mainloop() returns (line 421)
CloseApp ==
    /\ ~appClosed
    /\ pc \in {"idle"} \cup Waits
    /\ appClosed' = TRUE
    /\ grab' = FALSE
    /\ IF pc = "idle"
       THEN /\ pc' = "exited"
            /\ UNCHANGED calls
       ELSE /\ pc' = IF pc = "ar_wait1" THEN "ar_password" ELSE "ar_info"
            /\ calls' = Append(calls, Ev("close_app", TRUE))
    /\ UNCHANGED <<entries, store, envExists, wf, exc, browser, store0, entries0,
                   stack>>

----------------------------------------------------------------------------

Next ==
    \/ UserEdit
    \/ Click
    \/ GA_Backup \/ GA_Domain \/ GA_Generate
    \/ RI_Reset
    \/ UA_Validate \/ UA_Backup \/ UA_Process
    \/ AR_Save \/ AR_InitBrowser \/ AR_FillForm \/ AR_Continue1
    \/ AR_FillPassword \/ AR_Continue2 \/ AR_GetUserInfo \/ AR_GetToken
    \/ AR_Finally
    \/ ErrorHandler
    \/ Return
    \/ CloseApp

Spec == Init /\ [][Next]_vars

TypeOK ==
    /\ envExists \in BOOLEAN /\ browser \in BOOLEAN
    /\ grab \in BOOLEAN /\ appClosed \in BOOLEAN
    /\ DOMAIN entries = Widgets /\ DOMAIN store = EnvVars
    /\ (pc = "idle") = (wf = "none" /\ ~appClosed)

----------------------------------------------------------------------------
(* Reading the history *)

CallIdx == 1..Len(calls)

Has(op) == \E i \in CallIdx : calls[i].op = op

Count(op) == Cardinality({i \in CallIdx : calls[i].op = op})

Notifications == {"show_success", "show_warning", "show_error"}

ExternalOps == {"generate_cursor_account", "reset", "process_cookies"}

StepOps == {RegistrarSteps[i] : i \in 1..Len(RegistrarSteps)}

\* the handler has returned to the event loop (which has ended when the
\* window was closed during the handler)
Returned == pc = "done" \/ (pc = "exited" /\ wf # "none")

\* the try/finally of auto_register has been left
TornDown == wf = "auto_register" /\ pc \in {"raised", "done", "exited"}

----------------------------------------------------------------------------
(* C1 *)

\* C1: every write to the store made by a handler is preceded, in the same
\* invocation, by a successful backup of the backing file.
C1_WriteAfterBackup ==
    \A i \in CallIdx :
        (calls[i].op = "update_env_vars" /\ calls[i].ok)
            => \E j \in 1..(i - 1) : calls[j].op = "backup_file" /\ calls[j].ok

----------------------------------------------------------------------------
(* C2 *)

\* C2: however auto_register leaves its try block, if the registrar holds a
\* browser handle then quit is invoked exactly once, and no registrar step is
\* invoked after it.
C2_QuitExactlyOnce ==
    /\ Count("quit") <= 1
    /\ \A i \in CallIdx : \A j \in CallIdx :
          (calls[i].op = "quit" /\ j > i) => calls[j].op \notin StepOps
    /\ (TornDown /\ browser) => Count("quit") = 1

\* an auto_register run that failed in a registrar step, with a handle, has
\* returned after quitting the browser
C2_Witness ==
    /\ Returned /\ wf = "auto_register" /\ browser
    /\ \E i \in CallIdx : calls[i].op \in StepOps /\ ~calls[i].ok
    /\ Count("quit") = 1

----------------------------------------------------------------------------
(* C3 *)

\* C3: when the trimmed cookie text is empty or lacks the required token
\* substring, update_auth shows one warning and returns: no backup, no cookie
\* processing, no store write, the cookie box and the other boxes unchanged.
C3_InvalidCookieRejected ==
    LET c == strip(entries0["cookie"]) IN
    (wf = "update_auth" /\ (c = <<>> \/ ~Contains(c, RequiredToken)))
        => /\ pc \in {"ua_validate", "done"}
           /\ pc = "ua_validate" => calls = <<>>
           /\ Returned => (Len(calls) = 1 /\ calls[1].op = "show_warning")
           /\ store = store0
           /\ entries = entries0

\* update_auth has returned on a non-empty cookie text that has the token
\* name but not the required substring
C3_Witness ==
    /\ wf = "update_auth" /\ Returned
    /\ strip(entries0["cookie"]) # <<>>
    /\ Contains(entries0["cookie"], TokenName)
    /\ ~Contains(entries0["cookie"], RequiredToken)
    /\ Has("show_warning")

----------------------------------------------------------------------------
(* C4 *)

GenerationFailed ==
    wf = "generate_account" /\ Returned
        /\ \E i \in CallIdx : calls[i].op = "generate_cursor_account" /\ ~calls[i].ok

\* the one error reported is the message of the failed external operation
ErrorIsOpMessage ==
    /\ Count("show_error") = 1
    /\ \E i \in CallIdx :
          /\ calls[i].op \in ExternalOps /\ ~calls[i].ok
          /\ calls[Len(calls)] = EvMsg("show_error", calls[i].msg)

\* C4 as stated: when account generation returns a failure envelope with
\* message m, the store after generate_account equals the store before it,
\* whatever the boxes hold, and the error reported is exactly m.
C4_StoreUntouched ==
    GenerationFailed => (store = store0 /\ ErrorIsOpMessage)

\* C4 amended: when account generation returns a failure envelope with message
\* m, the store after generate_account equals the store before it except that
\* DOMAIN holds the trimmed DOMAIN box when that is non-empty, and the error
\* reported is exactly m.
C4_OnlyDomainWritten ==
    GenerationFailed =>
        /\ LET domain == strip(entries0["DOMAIN"]) IN
           store = IF domain # <<>> THEN [store0 EXCEPT !["DOMAIN"] = domain]
                                    ELSE store0
        /\ ErrorIsOpMessage

\* generation failed with a DOMAIN box that differs from the stored DOMAIN
C4_Witness ==
    /\ GenerationFailed
    /\ strip(entries0["DOMAIN"]) # <<>>
    /\ store0["DOMAIN"] # strip(entries0["DOMAIN"])
    /\ store0["EMAIL"] = None /\ entries0["EMAIL"] # <<>>

----------------------------------------------------------------------------
(* C5 *)

\* C5: when a store write or a backup returns failure, the handler runs no
\* later step and what the user is shown is an error, not a success or a
\* mere warning.
C5_IoFailureAborts ==
    Returned =>
        \A i \in CallIdx :
            (calls[i].op \in {"update_env_vars", "backup_file"} /\ ~calls[i].ok)
                => /\ i + 1 = Len(calls)
                   /\ calls[i + 1].op = "show_error"
                   /\ ~Has("show_success")

----------------------------------------------------------------------------
(* C6 *)

\* the registrar steps invoked so far, in order
StepsInvoked == SelectSeq(calls, LAMBDA c : c.op \in StepOps)

\* the user pressed the button of the dialog showing `message' before call i
ContinuedBefore(message, i) ==
    \E j \in 1..(i - 1) : calls[j] = EvMsg("on_continue", message)

\* C6: auto_register invokes the registrar steps in the order init_browser,
\* fill_registration_form, fill_password, get_user_info, get_cursor_token,
\* each at most once; fill_password only after the user continued at the
\* first dialog and get_user_info only after the user continued at the second.
C6_LinearGatedOrder ==
    /\ Len(StepsInvoked) <= Len(RegistrarSteps)
    /\ \A n \in 1..Len(StepsInvoked) : StepsInvoked[n].op = RegistrarSteps[n]
    /\ \A i \in CallIdx :
          /\ calls[i].op = "fill_password" => ContinuedBefore(MsgClickButton, i)
          /\ calls[i].op = "get_user_info" => ContinuedBefore(MsgVerify, i)

\* a run that went through both dialogs and all five steps has returned
C6_Witness ==
    /\ Returned /\ wf = "auto_register"
    /\ Len(StepsInvoked) = Len(RegistrarSteps)
    /\ Count("on_continue") = 2

----------------------------------------------------------------------------
(* C7 *)

\* C7: once a registrar step has failed, auto_register invokes no later
\* registrar step and no later confirmation wait, leaves the cookie box as it
\* was, reports neither the success nor the no-token warning, and still runs
\* the teardown.
C7_StepFailureAborts ==
    \A i \in CallIdx :
        (calls[i].op \in StepOps /\ ~calls[i].ok) =>
            /\ \A j \in CallIdx :
                  j > i => calls[j].op \notin (StepOps \cup {"wait_for_user", "on_continue"})
            /\ entries["cookie"] = entries0["cookie"]
            /\ ~Has("show_success")
            /\ \A j \in CallIdx : calls[j].msg # MsgNoToken
            /\ pc \in {"ar_finally", "raised", "done", "exited"}
            /\ (TornDown /\ browser) => Has("quit")

\* fill_password failed after the first dialog, and the run has returned
\* with the browser quit
C7_Witness ==
    /\ Returned /\ wf = "auto_register"
    /\ \E i \in CallIdx : calls[i].op = "fill_password" /\ ~calls[i].ok
    /\ Has("quit")

----------------------------------------------------------------------------
(* C8 *)

\* every call of the run returned normally and get_cursor_token gave no token
AllSucceededNoToken ==
    /\ Returned /\ wf = "auto_register"
    /\ \A i \in CallIdx : calls[i].ok
    /\ \E i \in CallIdx : calls[i].op = "get_cursor_token" /\ calls[i].arg = <<>>

\* C8: when every step of auto_register succeeds but get_cursor_token returns
\* no token, the handler completes without an exception: the one notification
\* is the no-token warning, the cookie box is unchanged, and quit is invoked
\* exactly once.
C8_NoTokenIsWarning ==
    AllSucceededNoToken =>
        /\ ~Has("show_error") /\ ~Has("show_success")
        /\ Count("show_warning") = 1
        /\ \E i \in CallIdx : calls[i] = EvMsg("show_warning", MsgNoToken)
        /\ entries["cookie"] = entries0["cookie"]
        /\ Count("quit") = 1
        /\ calls[Len(calls)].op = "quit"

C8_Witness ==
    AllSucceededNoToken /\ Has("update_env_vars") /\ Has("quit")

----------------------------------------------------------------------------
(* C9 *)

\* generate_account, or update_auth with a cookie that passed validation
AtBackupStep ==
    \/ wf = "generate_account"
    \/ /\ wf = "update_auth"
       /\ LET c == strip(entries0["cookie"])
          IN  c # <<>> /\ Contains(c, RequiredToken)

\* C9: in generate_account and in update_auth after validation, when the
\* backing file does not exist at the backup step the handler aborts with an
\* error: the backup manager, the external operation and the store write are
\* not invoked, and the store and the boxes are unchanged.
C9_MissingFileAborts ==
    (AtBackupStep /\ ~envExists) =>
        /\ pc \in {"ga_backup", "ua_validate", "ua_backup", "raised", "done"}
        /\ \A i \in CallIdx : calls[i].op = "show_error"
        /\ pc = "raised" => exc = MsgEnvNotFound
        /\ Returned => calls = <<EvMsg("show_error", MsgEnvNotFound)>>
        /\ store = store0
        /\ entries = entries0

\* update_auth with a well-formed cookie has returned with the error of the
\* missing file
C9_Witness ==
    /\ wf = "update_auth" /\ Returned /\ ~envExists
    /\ Contains(entries0["cookie"], RequiredToken)
    /\ Has("show_error")

----------------------------------------------------------------------------
(* C10 *)

\* C10: in generate_account, reset_ID and update_auth, when the external
\* operation returns a failure envelope with message m the handler raises at
\* once with exactly m: the failed call is the last step, the error reported
\* carries m, no success is shown, no box is changed and the visible fields
\* are not flushed to the store.
C10_OpFailureAborts ==
    \A i \in CallIdx :
        (calls[i].op \in ExternalOps /\ ~calls[i].ok) =>
            /\ pc \in {"raised", "done"}
            /\ pc = "raised" => (exc = calls[i].msg /\ i = Len(calls))
            /\ Returned => (i + 1 = Len(calls)
                            /\ calls[i + 1] = EvMsg("show_error", calls[i].msg))
            /\ ~Has("show_success")
            /\ entries = entries0
            /\ \A j \in CallIdx : j > i => calls[j].op # "update_env_vars"
            /\ wf # "generate_account" => store = store0

\* update_auth has returned after process_cookies failed, with boxes that a
\* flush would have written
C10_Witness ==
    /\ wf = "update_auth" /\ Returned
    /\ \E i \in CallIdx : calls[i].op = "process_cookies" /\ ~calls[i].ok
    /\ entries["cookie"] # <<>>
    /\ DOMAIN VisibleUpdates(entries) # {}

----------------------------------------------------------------------------
(* C11 *)

\* update_auth has returned after process_cookies succeeded
UpdateAuthSucceeded ==
    /\ wf = "update_auth" /\ Returned
    /\ \E i \in CallIdx : calls[i].op = "process_cookies" /\ calls[i].ok

\* the steps of a successful update_auth, in order, on the trimmed cookie
UpdateAuthOrder ==
    LET cookie_str == strip(entries0["cookie"]) IN
    /\ Len(calls) >= 4
    /\ calls[1] = Ev("backup_file", TRUE)
    /\ calls[2].op = "process_cookies" /\ calls[2].arg = cookie_str
    /\ calls[3] = EvMsg("show_success", calls[2].msg)
    /\ calls[4] = Ev("clear_cookie", TRUE)
    /\ \A i \in CallIdx : i > 4 => calls[i].op \in {"update_env_vars", "show_warning"}
    /\ (DOMAIN VisibleUpdates(entries0) # {})
          => (Len(calls) >= 5 /\ calls[5].op = "update_env_vars"
              /\ calls[5].upd = VisibleUpdates(entries0))
    /\ entries = [entries0 EXCEPT !["cookie"] = <<>>]

\* the store holds every recognized field that was visible
StoreHoldsVisible ==
    \A k \in EnvVars :
        strip(entries0[k]) # <<>> => store[k] = strip(entries0[k])

\* every store write of the run returned success
WritesSucceeded ==
    \A i \in CallIdx : calls[i].op = "update_env_vars" => calls[i].ok

----------------------------------------------------------------------------
(* C12 *)

\* reset_ID has returned after reset() succeeded
ResetSucceeded ==
    /\ wf = "reset_ID" /\ Returned
    /\ \E i \in CallIdx : calls[i].op = "reset" /\ calls[i].ok

\* success is reported with the message of reset(), then the boxes are flushed
ResetReportThenFlush ==
    /\ Len(calls) >= 2
    /\ calls[1].op = "reset"
    /\ calls[2] = EvMsg("show_success", calls[1].msg)
    /\ Count("show_success") = 1
    /\ \A i \in CallIdx : i > 2 => calls[i].op \in {"update_env_vars", "show_warning"}
    /\ (DOMAIN VisibleUpdates(entries0) # {})
          => (Len(calls) >= 3 /\ calls[3].op = "update_env_vars"
              /\ calls[3].upd = VisibleUpdates(entries0))
    /\ entries = entries0

----------------------------------------------------------------------------
(* C13 *)

\* generate_cursor_account() returned a pair, in either shape
GenerateSucceeded ==
    /\ wf = "generate_account"
    /\ pc \in {"raised", "done", "exited"}
    /\ \E i \in CallIdx : calls[i].op = "generate_cursor_account" /\ calls[i].ok

\* the pair generate_cursor_account() returned
GeneratedPair ==
    LET i == CHOOSE j \in CallIdx : calls[j].op = "generate_cursor_account"
    IN  calls[i].upd

\* both shapes are truthy and unpack to the same boxes
ShapesAgree ==
    \A d \in GenPairs, m \in Msgs :
        /\ ResultOk(Result(TRUE, d, m)) /\ ResultOk(PlainTuple(d))
        /\ AcceptedEntries(Result(TRUE, d, m)) = AcceptedEntries(PlainTuple(d))

\* the boxes show the generated pair and nothing else changed in them
PairShown ==
    /\ Returned
    /\ entries = [entries0 EXCEPT !["EMAIL"] = GeneratedPair["EMAIL"],
                                  !["PASSWORD"] = GeneratedPair["PASSWORD"]]
    /\ Has("show_success")

\* the store holds the generated pair
PairStored ==
    /\ store["EMAIL"] = GeneratedPair["EMAIL"]
    /\ store["PASSWORD"] = GeneratedPair["PASSWORD"]

----------------------------------------------------------------------------
(* C14 *)

\* C14: while auto_register is suspended at a confirmation dialog the dialog
\* holds the grab and no button handler can be entered, so no invocation is
\* ever nested inside another: at most one workflow is in progress.
C14_OneWorkflowAtATime ==
    /\ stack = <<>>
    /\ pc \in Waits => (wf = "auto_register" /\ grab /\ ~CanEnter)
    /\ grab => pc \in Waits

\* auto_register is suspended at its second dialog
C14_Witness ==
    /\ wf = "auto_register" /\ pc = "ar_wait2" /\ grab
    /\ Count("wait_for_user") = 2

----------------------------------------------------------------------------
(* C15 *)

\* the main window was closed while auto_register was suspended at a dialog
ClosedWhileSuspended ==
    wf = "auto_register" /\ Has("close_app")

\* C15: when the application is closed while auto_register is suspended at a
\* confirmation dialog, the handler still unwinds through its finally block:
\* it does not end before the block has run, and a browser handle created
\* for the session is quit there, once.
C15_TeardownAfterClose ==
    ClosedWhileSuspended =>
        /\ Has("init_browser") /\ browser
        /\ pc \in {"ar_password", "ar_wait2", "ar_info", "ar_token",
                   "ar_finally", "raised", "done", "exited"}
        /\ TornDown => Count("quit") = 1
        /\ \A i, j \in CallIdx :
              (calls[i].op = "quit" /\ i < j) => calls[j].op = "show_error"

\* the application was closed at the first dialog and the process has ended
\* with the browser quit
C15_Witness ==
    /\ ClosedWhileSuspended /\ pc = "exited"
    /\ Count("wait_for_user") = 1
    /\ Count("quit") = 1

----------------------------------------------------------------------------
(* C16 *)

\* the non-empty tokens get_cursor_token() returns
RealTokens == Tokens \ {<<>>}

\* auto_register is past its finally block and get_cursor_token() returned t
TokenReturned(t) ==
    /\ TornDown
    /\ \E i \in CallIdx : /\ calls[i].op = "get_cursor_token"
                          /\ calls[i].ok /\ calls[i].arg = t

\* the cookie box holds prefix + t, success was reported, and the box passes
\* the checks of lines 321-327
TokenFilledIn(t) ==
    /\ entries["cookie"] = RequiredToken \o t
    /\ \E i \in CallIdx : calls[i] = EvMsg("show_success", MsgRegistered)
    /\ CookieWarning(strip(entries["cookie"])) = ""

\* update_auth was clicked with the cookie box as auto_register left it
AuthAfterRegister ==
    /\ wf = "update_auth"
    /\ entries0["cookie"] \in {RequiredToken \o t : t \in RealTokens}

\* update_auth is not rejected by the validation, and after a successful
\* backup it calls process_cookies
ReachesProcessing ==
    /\ ~Has("show_warning") \/ Has("update_env_vars")
    /\ pc \in {"ua_validate", "ua_backup", "ua_process", "raised", "done"}
    /\ (Has("backup_file") /\ calls[1].ok /\ pc \in {"raised", "done"})
          => (Len(calls) >= 2 /\ calls[2].op = "process_cookies")

----------------------------------------------------------------------------
(* C17 *)

\* the store writes of the invocation
StoreWrites == {i \in CallIdx : calls[i].op = "update_env_vars"}

\* box k was empty, after trimming, throughout the invocation
EmptyField(k) == strip(entries0[k]) = <<>> /\ strip(entries[k]) = <<>>

\* C17: every store write maps a non-empty subset of the recognized names to
\* the non-empty trimmed text of their boxes; the cookie box is never
\* written; an empty box is left out of the write and its stored value is as
\* it was; with all recognized boxes empty there is no store write.
C17_WritesAreVisibleFields ==
    /\ \A i \in StoreWrites :
          /\ DOMAIN calls[i].upd # {}
          /\ DOMAIN calls[i].upd \subseteq EnvVars
          /\ "cookie" \notin DOMAIN calls[i].upd
          /\ \A k \in DOMAIN calls[i].upd :
                /\ calls[i].upd[k] # <<>>
                /\ calls[i].upd[k] = strip(calls[i].upd[k])
                /\ calls[i].upd[k] \in {strip(entries0[k]), strip(entries[k])}
    /\ \A k \in EnvVars :
          /\ EmptyField(k) =>
                /\ store[k] = store0[k]
                /\ \A i \in StoreWrites : k \notin DOMAIN calls[i].upd
          /\ store[k] # store0[k] =>
                \E i \in StoreWrites : /\ calls[i].ok
                                       /\ k \in DOMAIN calls[i].upd
                                       /\ store[k] = calls[i].upd[k]
    /\ (\A k \in EnvVars : EmptyField(k)) => StoreWrites = {}

\* a write of the trimmed DOMAIN box that left out an empty box whose stored
\* value is kept
C17_Witness ==
    /\ \E i \in StoreWrites : /\ calls[i].ok
                              /\ "DOMAIN" \in DOMAIN calls[i].upd
                              /\ calls[i].upd["DOMAIN"] # entries0["DOMAIN"]
                              /\ DOMAIN calls[i].upd # EnvVars
    /\ \E k \in EnvVars : EmptyField(k) /\ store[k] # <<>>

----------------------------------------------------------------------------
(* C18 *)

\* update_auth was clicked with the cookie box as setup_ui filled it
AuthOnPlaceholder ==
    wf = "update_auth" /\ entries0["cookie"] = TokenName

\* C18: with the cookie box holding the pre-filled token name alone,
\* update_auth is rejected by the format check: it shows the format warning
\* and makes no backup, no process_cookies call and no store write.
C18_PlaceholderRejected ==
    AuthOnPlaceholder =>
        /\ pc \in {"ua_validate", "done"}
        /\ calls = IF pc = "ua_validate" THEN <<>>
                   ELSE <<EvMsg("show_warning", MsgCookieFormat)>>
        /\ store = store0 /\ entries = entries0
        /\ exc = NoExc

\* update_auth has returned from the placeholder with its warning
C18_Witness ==
    /\ AuthOnPlaceholder /\ Returned
    /\ Count("show_warning") = 1
    /\ ~Has("backup_file")

----------------------------------------------------------------------------
(* C19 *)

\* the steps auto_register takes by itself: its own statements and the
\* external calls it makes, each of which returns or raises
HandlerStep ==
    \/ AR_Save \/ AR_InitBrowser \/ AR_FillForm \/ AR_FillPassword
    \/ AR_GetUserInfo \/ AR_GetToken \/ AR_Finally
    \/ ErrorHandler \/ Return

\* every external call returns or raises, a handler that can go on does go
\* on, and the user presses the button of each confirmation dialog
Fairness ==
    /\ WF_vars(AR_Save) /\ WF_vars(AR_InitBrowser) /\ WF_vars(AR_FillForm)
    /\ WF_vars(AR_FillPassword) /\ WF_vars(AR_GetUserInfo)
    /\ WF_vars(AR_GetToken) /\ WF_vars(AR_Finally)
    /\ WF_vars(ErrorHandler) /\ WF_vars(Return)
    /\ WF_vars(GA_Backup) /\ WF_vars(GA_Domain) /\ WF_vars(GA_Generate)
    /\ WF_vars(RI_Reset)
    /\ WF_vars(UA_Validate) /\ WF_vars(UA_Backup) /\ WF_vars(UA_Process)
    /\ WF_vars(AR_Continue1) /\ WF_vars(AR_Continue2)

LiveSpec == Init /\ [][Next]_vars /\ Fairness

\* auto_register has been entered
Started == wf = "auto_register" /\ pc = "ar_save"

\* auto_register has returned to the event loop
Finished == wf = "auto_register" /\ Returned

====
